---- MODULE Spec2Model ----
(***************************************************************************)
(* nash-stats: a poller that fetches the latest completed orders of an     *)
(* HTTP endpoint every two seconds, diffs them against the previously      *)
(* fetched set, logs and inserts the new ones into a DuckDB table.         *)
(*                                                                         *)
(* f64 values are modelled as [cls, k]: cls "finite" with k counting       *)
(* multiples of 2^-54 above 0.3 (the spacing of doubles in [0.25, 0.5)),   *)
(* or cls "nan".  f64::EPSILON = 2^-52 is then 4 units.                    *)
(***************************************************************************)
EXTENDS Integers, Sequences, FiniteSets, TLC

\* ------------------------------------------------------------------ bounds
\* longest latestOrders array the endpoint answers with
MaxLen == 2
\* rows the orders table can take before an INSERT fails (storage full)
MaxRows == 2
\* rows inserted by the client of db.rs in StoreSpec
MaxStoreRows == 11

\* ------------------------------------------------- program constants
\* f64::EPSILON, in units of 2^-54
EPSILON == 4
\* LIMIT 10 of get_latest_orders
Limit == 10

\* ------------------------------------------------------------- f64
Finite(k) == [cls |-> "finite", k |-> k]
NaN == [cls |-> "nan", k |-> 0]

Abs(i) == IF i < 0 THEN 0 - i ELSE i

\* str::parse::<f64>: the decimal strings the endpoint is modelled to send.
\* Rust's parser accepts "NaN" (and "inf") as well as decimal numbers.
ParseF64(s) ==
    CASE s = "0.3"                 -> [ok |-> TRUE, v |-> Finite(0)]
      [] s = "0.30000000000000004" -> [ok |-> TRUE, v |-> Finite(1)]
      [] s = "0.3000000000000005"  -> [ok |-> TRUE, v |-> Finite(9)]
      [] s = "NaN"                 -> [ok |-> TRUE, v |-> NaN]
      [] OTHER                     -> [ok |-> FALSE, v |-> NaN]

\* serde's deserialize_with = "from_str_to_f64"
from_str_to_f64(s) == ParseF64(s)

\* approx: f64::abs_diff_eq(a, b, eps) is (a - b).abs() <= eps, false on NaN
abs_diff_eq(a, b, eps) ==
    /\ a.cls = "finite"
    /\ b.cls = "finite"
    /\ Abs(a.k - b.k) <= eps

\* ------------------------------------------------------- OrderType
\* serde(rename_all = "camelCase") on enum OrderType { Buy, Sell }
DeserializeOrderType(tok) ==
    CASE tok = "buy"  -> [ok |-> TRUE, v |-> "Buy"]
      [] tok = "sell" -> [ok |-> TRUE, v |-> "Sell"]
      [] OTHER        -> [ok |-> FALSE, v |-> "Buy"]

\* impl Display for OrderType
OrderTypeToString(ty) == IF ty = "Buy" THEN "buy" ELSE "sell"

\* impl FromStr for OrderType
OrderTypeFromStr(s) ==
    CASE s = "buy"  -> [ok |-> TRUE, v |-> "Buy"]
      [] s = "sell" -> [ok |-> TRUE, v |-> "Sell"]
      [] OTHER      -> [ok |-> FALSE, v |-> "Buy"]

\* ----------------------------------------------------------- Order
\* The JSON objects of the latestOrders array the endpoint is modelled to
\* send: two well-formed orders, one whose cryptoAmount is the next double
\* above 0.3, one with a NaN amount, one with a non-numeric amount and one
\* with an unknown type.
RawOrder(t, ca) ==
    [type |-> t, blockchain |-> "eth", cryptoAmount |-> ca,
     cryptoSymbol |-> "ETH", fiatAmount |-> "0.3000000000000005",
     fiatPrice |-> "0.3", fiatSymbol |-> "EUR"]

RawOrders ==
    { RawOrder("buy", "0.3"), RawOrder("buy", "0.30000000000000004"),
      RawOrder("sell", "0.3"), RawOrder("buy", "NaN"),
      RawOrder("buy", "abc"), RawOrder("swap", "0.3") }

\* a variant that lets an amount that does not parse through (unwrap_or)
OrderDecodesTypeOnly(raw) == DeserializeOrderType(raw.type).ok

\* derive(Deserialize) for struct Order: every field has to decode
OrderDecodes(raw) ==
    /\ DeserializeOrderType(raw.type).ok
    /\ from_str_to_f64(raw.cryptoAmount).ok
    /\ from_str_to_f64(raw.fiatAmount).ok
    /\ from_str_to_f64(raw.fiatPrice).ok

\* `copy` is not a field of Order: it tells apart the elements of a
\* HashSet<Order> whose seven fields are the same (see FromIter).
DeserializeOrder(raw) ==
    [ty            |-> DeserializeOrderType(raw.type).v,
     blockchain    |-> raw.blockchain,
     crypto_amount |-> from_str_to_f64(raw.cryptoAmount).v,
     crypto_symbol |-> raw.cryptoSymbol,
     fiat_amount   |-> from_str_to_f64(raw.fiatAmount).v,
     fiat_price    |-> from_str_to_f64(raw.fiatPrice).v,
     fiat_symbol   |-> raw.fiatSymbol,
     copy          |-> 0]

\* impl PartialEq for Order
OrderEq(a, b) ==
    /\ a.ty = b.ty
    /\ a.blockchain = b.blockchain
    /\ abs_diff_eq(a.crypto_amount, b.crypto_amount, EPSILON)
    /\ a.crypto_symbol = b.crypto_symbol
    /\ abs_diff_eq(a.fiat_amount, b.fiat_amount, EPSILON)
    /\ abs_diff_eq(a.fiat_price, b.fiat_price, EPSILON)
    /\ a.fiat_symbol = b.fiat_symbol

\* impl Hash for Order: the fields, the floats by their bit pattern
OrderHash(a) ==
    <<a.ty, a.blockchain, a.crypto_amount, a.crypto_symbol,
      a.fiat_amount, a.fiat_price, a.fiat_symbol>>

\* ---------------------------------------------------------- HashSet
\* HashSet::contains: the probe compares x with the stored elements whose
\* hash matches; `collide` says whether the probe also meets the elements
\* of a different hash (a tag collision in the table, which depends on the
\* random hasher keys).
Contains(set, x, collide) ==
    \E y \in set : (OrderHash(y) = OrderHash(x) \/ collide) /\ OrderEq(y, x)

\* x as the next element of acc with its fields: an order that is not
\* equal to itself (a NaN amount) is in a HashSet as often as inserted
NextCopy(acc, x) ==
    [x EXCEPT !.copy = Cardinality({ y \in acc : OrderHash(y) = OrderHash(x) })]

\* HashSet::from_iter: insert in order, an element found is not inserted
RECURSIVE FromIter(_, _, _)
FromIter(list, acc, collide) ==
    IF list = <<>> THEN acc
    ELSE FromIter(Tail(list),
                  IF Contains(acc, Head(list), collide)
                  THEN acc ELSE acc \cup {NextCopy(acc, Head(list))},
                  collide)

\* LatestOrders::into_set
into_set(latest_orders, collide) == FromIter(latest_orders, {}, collide)

\* HashSet::difference: the elements of a that b does not contain
Difference(a, b, collide) == { x \in a : ~Contains(b, x, collide) }

\* ------------------------------------------------------------ fetch
RECURSIVE SeqsUpTo(_, _)
SeqsUpTo(S, n) ==
    IF n = 0 THEN {<<>>}
    ELSE LET shorter == SeqsUpTo(S, n - 1)
         IN  shorter \cup { Append(l, x) : l \in {m \in shorter : Len(m) = n - 1}, x \in S }

\* The response bodies of the endpoint: a success payload, a failure
\* payload, a payload of neither shape, and one with the fields of both.
Bodies ==
    { [latestOrders |-> l] : l \in SeqsUpTo(RawOrders, MaxLen) }
        \cup { [message |-> "down"], [message |-> "rate limited"],
               [detail |-> "maintenance"],
               [latestOrders |-> <<>>, message |-> "down"] }

\* What one GET yields: a transport error, or a body.
HttpOutcomes ==
    { [sent |-> FALSE, body |-> [detail |-> "unreachable"]] }
        \cup { [sent |-> TRUE, body |-> b] : b \in Bodies }

\* serde(untagged) enum OrdersResponse { Ok(LatestOrders), Err(OrdersError) }:
\* the variants are tried in order, the first that decodes wins.
DecodesAsLatestOrders(body) ==
    /\ "latestOrders" \in DOMAIN body
    /\ \A i \in 1..Len(body.latestOrders) : OrderDecodes(body.latestOrders[i])

DecodesAsOrdersError(body) == "message" \in DOMAIN body

DeserializeLatestOrders(body) ==
    [ i \in 1..Len(body.latestOrders) |-> DeserializeOrder(body.latestOrders[i]) ]

\* fetch: Ok(set of orders) or Err
fetch(http, collide) ==
    IF ~http.sent
    THEN [ok |-> FALSE, set |-> {}, err |-> [kind |-> "transport"]]
    ELSE IF DecodesAsLatestOrders(http.body)
    THEN [ok |-> TRUE,
          set |-> into_set(DeserializeLatestOrders(http.body), collide),
          err |-> [kind |-> "none"]]
    ELSE IF DecodesAsOrdersError(http.body)
    THEN [ok |-> FALSE, set |-> {},
          err |-> [kind |-> "message", message |-> http.body.message]]
    ELSE [ok |-> FALSE, set |-> {},
          err |-> [kind |-> "deserialize", text |-> http.body]]

\* main.rs has a fetch of its own, which main calls when fetch.rs is not
\* the one in scope: send().await?.json::<OrdersResponse>().await?.try_into()?
\* A body of neither shape is reqwest's decode error, which has no body.
main_fetch(http, collide) ==
    IF ~http.sent
    THEN [ok |-> FALSE, set |-> {}, err |-> [kind |-> "transport"]]
    ELSE IF DecodesAsLatestOrders(http.body)
    THEN [ok |-> TRUE,
          set |-> into_set(DeserializeLatestOrders(http.body), collide),
          err |-> [kind |-> "none"]]
    ELSE IF DecodesAsOrdersError(http.body)
    THEN [ok |-> FALSE, set |-> {},
          err |-> [kind |-> "message", message |-> http.body.message]]
    ELSE [ok |-> FALSE, set |-> {}, err |-> [kind |-> "decode"]]

\* What the model keeps of a response: whether it came, the fields of the
\* body, its message, and the elements of its latestOrders array.
Summary(http) ==
    [sent    |-> http.sent,
     fields  |-> DOMAIN http.body,
     message |-> IF "message" \in DOMAIN http.body THEN http.body.message ELSE "",
     items   |-> IF "latestOrders" \in DOMAIN http.body
                 THEN { http.body.latestOrders[i] : i \in 1..Len(http.body.latestOrders) }
                 ELSE {}]

NoResponse == [sent |-> FALSE, fields |-> {}, message |-> "", items |-> {}]

\* What the model keeps of an anyhow::Error of fetch: which error it is,
\* the message of an OrdersError, the response text of a bail!.
ErrorOf(e) ==
    [kind    |-> e.kind,
     message |-> IF e.kind = "message" THEN e.message ELSE "",
     text    |-> IF e.kind = "deserialize"
                 THEN Summary([sent |-> TRUE, body |-> e.text])
                 ELSE NoResponse]

NoError == [kind |-> "none", message |-> "", text |-> NoResponse]

\* Every response with what fetch returns for it (Ok and the set, or Err
\* and the error), for the fetch of fetch.rs and for the one of main.rs;
\* `collide` as in Contains.
FetchResults(h) ==
    UNION { {fetch(h, c), main_fetch(h, c)} : c \in BOOLEAN }

Fetches ==
    UNION { { [response |-> Summary(h), ok |-> r.ok, set |-> r.set,
               err |-> ErrorOf(r.err)] : r \in FetchResults(h) } :
            h \in HttpOutcomes }

\* Whether `collide` can change the outcome of a lookup of the elements of
\* a in b: only when two elements are equal and hash differently.
HashMismatch(a, b) ==
    \E x \in a, y \in b : OrderHash(x) # OrderHash(y) /\ OrderEq(x, y)

Collisions(a, b) == IF HashMismatch(a, b) THEN BOOLEAN ELSE {FALSE}

\* --------------------------------------------------------------- db
\* The DuckDB file: whether table orders exists, and its rows.
\* Utc::now() of an insert is later than every stamp already stored.
UtcNow(rows) ==
    IF rows = <<>> THEN 1
    ELSE 1 + (CHOOSE t \in { rows[i].created_at : i \in 1..Len(rows) } :
                 \A j \in 1..Len(rows) : rows[j].created_at <= t)

\* a variant without IF NOT EXISTS: CREATE TABLE orders fails on a table
\* that is there
init_create(d, up) ==
    IF ~up \/ d.exists THEN [ok |-> FALSE, db |-> d]
    ELSE [ok |-> TRUE, db |-> [exists |-> TRUE, rows |-> d.rows]]

\* init: CREATE TABLE IF NOT EXISTS orders; `up` is whether the file opens
init(d, up) ==
    IF ~up THEN [ok |-> FALSE, db |-> d]
    ELSE [ok |-> TRUE, db |-> [exists |-> TRUE, rows |-> d.rows]]

\* insert_order: INSERT INTO orders VALUES (now, type, ...)
insert_order(order, d, up) ==
    IF ~up \/ ~d.exists THEN [ok |-> FALSE, db |-> d]
    ELSE [ok |-> TRUE,
          db |-> [exists |-> TRUE,
                  rows |-> Append(d.rows,
                      [created_at    |-> UtcNow(d.rows),
                       type          |-> OrderTypeToString(order.ty),
                       blockchain    |-> order.blockchain,
                       crypto_amount |-> order.crypto_amount,
                       crypto_symbol |-> order.crypto_symbol,
                       fiat_amount   |-> order.fiat_amount,
                       fiat_price    |-> order.fiat_price,
                       fiat_symbol   |-> order.fiat_symbol])]]

\* ORDER BY created_at DESC
RECURSIVE OrderByCreatedAtDesc(_)
OrderByCreatedAtDesc(rows) ==
    IF rows = <<>> THEN <<>>
    ELSE LET i == CHOOSE i \in 1..Len(rows) :
                    \A j \in 1..Len(rows) : rows[j].created_at <= rows[i].created_at
             rest == [ j \in 1..(Len(rows) - 1) |-> IF j < i THEN rows[j] ELSE rows[j + 1] ]
         IN  <<rows[i]>> \o OrderByCreatedAtDesc(rest)

\* a variant without the LIMIT clause
LimitRowsAll(rows, n) == rows

\* LIMIT n
LimitRows(rows, n) == IF Len(rows) <= n THEN rows ELSE SubSeq(rows, 1, n)

\* the row mapping closure of get_latest_orders
RowToOrder(row) ==
    [ty            |-> OrderTypeFromStr(row.type).v,
     blockchain    |-> row.blockchain,
     crypto_amount |-> row.crypto_amount,
     crypto_symbol |-> row.crypto_symbol,
     fiat_amount   |-> row.fiat_amount,
     fiat_price    |-> row.fiat_price,
     fiat_symbol   |-> row.fiat_symbol,
     copy          |-> 0]

\* get_latest_orders: SELECT ... ORDER BY created_at DESC LIMIT 10
get_latest_orders(d, up) ==
    IF ~up \/ ~d.exists THEN [ok |-> FALSE, orders |-> <<>>]
    ELSE LET sel == LimitRows(OrderByCreatedAtDesc(d.rows), Limit)
         IN  IF \E i \in 1..Len(sel) : ~OrderTypeFromStr(sel[i].type).ok
             THEN [ok |-> FALSE, orders |-> <<>>]
             ELSE [ok |-> TRUE, orders |-> [ i \in 1..Len(sel) |-> RowToOrder(sel[i]) ]]

\* ------------------------------------------------------------- main
VARIABLES
    pc,               \* where main is: "init", "boot", "fetch", "sleep", "exited"
    startup,          \* how far the start got: "pending", "init_ok", "init_failed",
                      \* "fetch_ok", "fetch_failed"
    db,               \* the DuckDB file at persist_path
    previous_orders,  \* main's previous_orders
    iter,             \* loop iterations of this run: 0, 1, or 2 for more
    oks,              \* those whose fetch was Ok: 0, 1, or 2 for more
    \* the iteration that has just run (pc = "sleep"):
    response,         \* what the endpoint answered
    outcome,          \* "ok" or "err", what fetch returned ("none": no iteration)
    current_orders,   \* current_orders
    new_orders,       \* new_orders, as a set
    attempted,        \* the orders insert_order was called with
    failed,           \* those for which it returned Err
    warned,           \* whether "New orders possibily missed" was logged
    error,            \* the error of fetch that error!("{err}") logged
    latest            \* what the last call of get_latest_orders returned

vars == <<pc, startup, db, previous_orders, iter, oks, response, outcome,
          current_orders, new_orders, attempted, failed, warned, error, latest>>

iteration == <<response, outcome, current_orders, new_orders, attempted, failed,
               warned, error>>

NoResult == [called |-> FALSE, ok |-> FALSE, orders |-> <<>>]

\* no iteration has run, or its locals are gone
NoIteration ==
    /\ response = NoResponse
    /\ outcome = "none"
    /\ current_orders = {}
    /\ new_orders = {}
    /\ attempted = {}
    /\ failed = {}
    /\ warned = FALSE
    /\ error = NoError

EndIteration ==
    /\ response' = NoResponse
    /\ outcome' = "none"
    /\ current_orders' = {}
    /\ new_orders' = {}
    /\ attempted' = {}
    /\ failed' = {}
    /\ warned' = FALSE
    /\ error' = NoError

Init ==
    /\ pc = "init"
    /\ startup = "pending"
    /\ db = [exists |-> FALSE, rows |-> <<>>]
    /\ previous_orders = {}
    /\ iter = 0
    /\ oks = 0
    /\ NoIteration
    /\ latest = NoResult

\* a counter of which only 0, 1 and "more" matter
Bump(n) == IF n = 0 THEN 1 ELSE 2

\* current_orders.difference(&previous_orders).collect::<Vec<_>>()
NewOrders(current, previous, collide) == Difference(current, previous, collide)

\* a variant that warns only when something is new
PossiblyMissedSomeNew(new, current) ==
    new # {} /\ Cardinality(new) = Cardinality(current)

\* if new_orders.len() == current_orders.len() { warn!(..) }
PossiblyMissed(new, current) == Cardinality(new) = Cardinality(current)

\* a variant that accumulates: previous_orders.extend(current_orders)
NextPreviousUnion(previous, current) == previous \cup current

\* previous_orders = current_orders;
NextPrevious(previous, current) == current

\* The orders in which `for o in new_orders` can visit the Vec collected
\* from the HashSet iterator.
Orderings(S) ==
    { s \in [1..Cardinality(S) -> S] : \A i, j \in 1..Cardinality(S) : s[i] = s[j] => i = j }

\* The storage takes another row.
HasRoom(d) == Len(d.rows) < MaxRows

\* for o in new_orders { info!(..); if let Err(err) = insert_order(o, ..) { error!(..) } }
\* ups[i] is whether the storage answers the i-th insert.
RECURSIVE InsertLoop(_, _, _, _, _)
InsertLoop(todo, ups, d, att, fl) ==
    IF todo = <<>> THEN [db |-> d, attempted |-> att, failed |-> fl]
    ELSE LET o == Head(todo)
             r == insert_order(o, d, Head(ups) /\ HasRoom(d))
         IN  InsertLoop(Tail(todo), Tail(ups), r.db, att \cup {o},
                        IF r.ok THEN fl ELSE fl \cup {o})

\* a variant that goes on without a baseline: fetch(..).await.unwrap_or_default()
AfterBootFetchIgnoring(ok) == "fetch"

\* where main goes after `init(..)?` and after `fetch(..).await?`
AfterInit(ok) == IF ok THEN "boot" ELSE "exited"
AfterBootFetch(ok) == IF ok THEN "fetch" ELSE "exited"

\* init(&args.persist_path)?
InitDb ==
    /\ pc = "init"
    /\ \E up \in BOOLEAN :
         LET r == init(db, up)
         IN  /\ db' = r.db
             /\ startup' = IF r.ok THEN "init_ok" ELSE "init_failed"
             /\ pc' = AfterInit(r.ok)
    /\ UNCHANGED <<previous_orders, iter, oks, iteration, latest>>

\* let mut previous_orders = fetch(&client).await?;
BootFetch ==
    /\ pc = "boot"
    /\ \E f \in Fetches :
         /\ previous_orders' = IF f.ok THEN f.set ELSE previous_orders
         /\ startup' = IF f.ok THEN "fetch_ok" ELSE "fetch_failed"
         /\ pc' = AfterBootFetch(f.ok)
    /\ UNCHANGED <<db, iter, oks, iteration, latest>>

\* What the Ok arm can come to for current_orders: new_orders, and what
\* the insert loop leaves, for each order the loop can visit them in and
\* each way the inserts can fail.
OkArm(current, previous, d) ==
    UNION { LET new == NewOrders(current, previous, c)
            IN  { [new |-> new, out |-> InsertLoop(todo, ups, d, {}, {})] :
                    todo \in Orderings(new),
                    ups \in [1..Cardinality(new) -> BOOLEAN] } :
            c \in Collisions(current, previous) }

\* one iteration of the loop whose fetch is Ok(current_orders)
PollOk ==
    /\ pc = "fetch"
    /\ \E f \in Fetches :
         /\ f.ok
         /\ response' = f.response
         /\ \E r \in OkArm(f.set, previous_orders, db) :
              /\ current_orders' = f.set
              /\ new_orders' = r.new
              /\ warned' = PossiblyMissed(r.new, f.set)
              /\ db' = r.out.db
              /\ attempted' = r.out.attempted
              /\ failed' = r.out.failed
              /\ previous_orders' = NextPrevious(previous_orders, f.set)
    /\ outcome' = "ok"
    /\ error' = NoError
    /\ iter' = Bump(iter)
    /\ oks' = Bump(oks)
    /\ pc' = "sleep"
    /\ UNCHANGED <<startup, latest>>

\* a variant that gives up on an error: fetch(&client).await?
AfterFetchErrReturns == "exited"

\* where main goes after the Err arm: on to the sleep
AfterFetchErr == "sleep"

\* a variant that forgets the baseline on an error
OnFetchErrClears(previous) == {}

\* Err(err) => error!("{err}")
OnFetchErr(previous) == previous

\* one iteration whose fetch is Err(err)
PollErr ==
    /\ pc = "fetch"
    /\ \E f \in Fetches :
         /\ ~f.ok
         /\ response' = f.response
         /\ error' = f.err
    /\ outcome' = "err"
    /\ current_orders' = {}
    /\ new_orders' = {}
    /\ attempted' = {}
    /\ failed' = {}
    /\ warned' = FALSE
    /\ previous_orders' = OnFetchErr(previous_orders)
    /\ iter' = Bump(iter)
    /\ pc' = AfterFetchErr
    /\ UNCHANGED <<startup, db, oks, latest>>

\* sleep(Duration::from_millis(2000)).await, and the next iteration begins
Sleep ==
    /\ pc = "sleep"
    /\ pc' = "fetch"
    /\ EndIteration
    /\ UNCHANGED <<startup, db, previous_orders, iter, oks, latest>>

\* The process is killed (or has exited) and is started again: the file stays.
Restart ==
    /\ pc # "init"
    /\ pc' = "init"
    /\ startup' = "pending"
    /\ previous_orders' = {}
    /\ iter' = 0
    /\ oks' = 0
    /\ EndIteration
    /\ UNCHANGED <<db, latest>>

Next == InitDb \/ BootFetch \/ PollOk \/ PollErr \/ Sleep \/ Restart

Spec == Init /\ [][Next]_vars

\* One run of the process that nothing shuts down.  The runtime resumes
\* main when the timer of the sleep fires and when the request of fetch
\* completes, with a response or with an error.
LoopNext == InitDb \/ BootFetch \/ PollOk \/ PollErr \/ Sleep

\* the steps of LoopNext that are PollOk or PollErr, and those that are
\* Sleep, told by pc
IterationDone == pc = "fetch" /\ pc' = "sleep"
SleepDone == pc = "sleep" /\ pc' = "fetch"

LoopSpec ==
    /\ Init
    /\ [][LoopNext]_vars
    /\ WF_pc(IterationDone)
    /\ WF_pc(SleepDone)

\* ------------------------------------------- db.rs called by a client
\* The orders a client of db.rs inserts.
StoreOrders == { DeserializeOrder(RawOrder("buy", "0.3")),
                 DeserializeOrder(RawOrder("sell", "0.3")) }

DbInit ==
    /\ \E up \in BOOLEAN : db' = init(db, up).db
    /\ latest' = NoResult
    /\ UNCHANGED <<pc, startup, previous_orders, iter, oks, iteration>>

DbInsert ==
    /\ Len(db.rows) < MaxStoreRows
    /\ \E o \in StoreOrders, up \in BOOLEAN : db' = insert_order(o, db, up).db
    /\ latest' = NoResult
    /\ UNCHANGED <<pc, startup, previous_orders, iter, oks, iteration>>

DbGetLatest ==
    /\ \E up \in BOOLEAN :
         LET r == get_latest_orders(db, up)
         IN  latest' = [called |-> TRUE, ok |-> r.ok, orders |-> r.orders]
    /\ UNCHANGED <<pc, startup, db, previous_orders, iter, oks, iteration>>

StoreNext == DbInit \/ DbInsert \/ DbGetLatest

StoreSpec == Init /\ [][StoreNext]_vars

\* ------------------------------------ the loop, one await at a time
\* The iteration of the loop taken apart at its awaits and calls: the GET
\* is sent (pc "fetching"), fetch returns, insert_order is called for one
\* new order after the other (pc "insert"), previous_orders is assigned,
\* main sleeps.  The locals of an iteration stay until the next fetch
\* returns.

\* a variant whose for loop breaks after its first order
InsertsDoneAfterFirst(new, att) == att # {} \/ new = {}

\* `for o in new_orders` is through: insert_order was called for each
InsertsDone(new, att) == att = new

\* fetch(&client) is called: client.get(..).send()
LoopFetchStart ==
    /\ pc = "fetch"
    /\ pc' = "fetching"
    /\ UNCHANGED <<startup, db, previous_orders, iter, oks, iteration, latest>>

\* fetch(&client).await is Ok(current_orders): new_orders and the warning
LoopFetchOk ==
    /\ pc = "fetching"
    /\ \E f \in Fetches :
         /\ f.ok
         /\ response' = f.response
         /\ current_orders' = f.set
         /\ \E c \in Collisions(f.set, previous_orders) :
            \E new \in {NewOrders(f.set, previous_orders, c)} :
              /\ new_orders' = new
              /\ warned' = PossiblyMissed(new, f.set)
    /\ outcome' = "ok"
    /\ error' = NoError
    /\ attempted' = {}
    /\ failed' = {}
    /\ iter' = Bump(iter)
    /\ oks' = Bump(oks)
    /\ pc' = "insert"
    /\ UNCHANGED <<startup, db, previous_orders, latest>>

\* fetch(&client).await is Err(err)
LoopFetchErr ==
    /\ pc = "fetching"
    /\ \E f \in Fetches :
         /\ ~f.ok
         /\ response' = f.response
         /\ error' = f.err
    /\ outcome' = "err"
    /\ current_orders' = {}
    /\ new_orders' = {}
    /\ attempted' = {}
    /\ failed' = {}
    /\ warned' = FALSE
    /\ previous_orders' = OnFetchErr(previous_orders)
    /\ iter' = Bump(iter)
    /\ pc' = AfterFetchErr
    /\ UNCHANGED <<startup, db, oks, latest>>

\* one turn of `for o in new_orders`: insert_order(o, ..) returns
LoopInsert ==
    /\ pc = "insert"
    /\ ~InsertsDone(new_orders, attempted)
    /\ \E o \in new_orders \ attempted, up \in BOOLEAN :
         LET r == insert_order(o, db, up /\ HasRoom(db))
         IN  /\ db' = r.db
             /\ attempted' = attempted \cup {o}
             /\ failed' = IF r.ok THEN failed ELSE failed \cup {o}
    /\ UNCHANGED <<pc, startup, previous_orders, iter, oks, response, outcome,
                   current_orders, new_orders, warned, error, latest>>

\* previous_orders = current_orders;
LoopReplace ==
    /\ pc = "insert"
    /\ InsertsDone(new_orders, attempted)
    /\ previous_orders' = NextPrevious(previous_orders, current_orders)
    /\ pc' = "sleep"
    /\ UNCHANGED <<startup, db, iter, oks, iteration, latest>>

\* sleep(Duration::from_millis(2000)).await; the response text and the error
\* of the iteration are dropped
LoopSleep ==
    /\ pc = "sleep"
    /\ pc' = "fetch"
    /\ response' = NoResponse
    /\ error' = NoError
    /\ UNCHANGED <<startup, db, previous_orders, iter, oks, outcome, current_orders,
                   new_orders, attempted, failed, warned, latest>>

StepNext ==
    \/ InitDb \/ BootFetch \/ LoopFetchStart \/ LoopFetchOk \/ LoopFetchErr
    \/ LoopInsert \/ LoopReplace \/ LoopSleep

StepSpec == Init /\ [][StepNext]_vars

\* =========================================================== claims
Range(seq) == { seq[i] : i \in 1..Len(seq) }

\* o has a row in the table
Stored(o, d) == \E i \in 1..Len(d.rows) : RowToOrder(d.rows[i]) = o

OrderA  == DeserializeOrder(RawOrder("buy", "0.3"))
OrderA2 == DeserializeOrder(RawOrder("buy", "0.30000000000000004"))
OrderB  == DeserializeOrder(RawOrder("sell", "0.3"))
OrderN  == DeserializeOrder(RawOrder("buy", "NaN"))

\* a step that is one iteration of the loop, by the result of its fetch
OkStep  == pc = "fetch" /\ pc' = "sleep" /\ outcome' = "ok"
ErrStep == pc = "fetch" /\ pc' = "sleep" /\ outcome' = "err"

\* new is a result of looking the elements of current up in the hash set
\* base: what has no equal element in base is new, what is in base (and
\* equal to itself) is not.
ComputedAgainst(new, current, base) ==
    /\ new \subseteq current
    /\ \A x \in current :
         /\ (\A y \in base : ~OrderEq(x, y)) => x \in new
         /\ (x \in base /\ OrderEq(x, x)) => x \notin new

\* C1: an iteration whose fetch fails changes neither previous_orders nor
\* the table and inserts nothing; the sleep keeps previous_orders too, so
\* the next iteration whose fetch succeeds computes new_orders against it.
C1_FetchErrorKeepsBaseline ==
    [][ /\ ErrStep => /\ previous_orders' = previous_orders
                      /\ db' = db
                      /\ attempted' = {}
                      /\ new_orders' = {}
        /\ (pc = "sleep" /\ pc' = "fetch") => previous_orders' = previous_orders
        /\ OkStep => ComputedAgainst(new_orders', current_orders', previous_orders)
      ]_vars

C1_Witness ==
    /\ pc = "sleep"
    /\ outcome = "err"
    /\ iter = 2
    /\ oks = 1
    /\ previous_orders # {}
    /\ db.rows # <<>>

\* C2: in an iteration whose fetch succeeds, new_orders is exactly the set
\* of the fetched orders that have no equal (PartialEq) order in
\* previous_orders.
C2_NewIsDifferenceByEq ==
    [][ OkStep =>
          new_orders' = { x \in current_orders' :
                            \A y \in previous_orders : ~OrderEq(x, y) } ]_vars

\* C3: after an iteration whose fetch succeeds, previous_orders is the
\* fetched set, whether or not an insert failed.
C3_BaselineReplaced ==
    (pc = "sleep" /\ outcome = "ok") => previous_orders = current_orders

\* an insert failed, and an order stored by an earlier iteration is gone
\* from previous_orders
C3_Witness ==
    /\ pc = "sleep"
    /\ outcome = "ok"
    /\ failed # {}
    /\ previous_orders = current_orders
    /\ \E i \in 1..Len(db.rows) : RowToOrder(db.rows[i]) \notin previous_orders

\* C4 as claimed: the warning is logged iff as many orders are new as were
\* fetched and the iteration is not the first of the run whose fetch
\* succeeded.
C4_WarnedUnlessFirst ==
    (pc = "sleep" /\ outcome = "ok") =>
        (warned <=> (Cardinality(new_orders) = Cardinality(current_orders) /\ oks # 1))

\* C4 amended: the warning is logged iff as many orders are new as were
\* fetched, in the first such iteration as in the later ones.
C4_WarnedIffAllNew ==
    (pc = "sleep" /\ outcome = "ok") =>
        (warned <=> Cardinality(new_orders) = Cardinality(current_orders))

\* the warning in the first iteration of a run, for a fetched set disjoint
\* from previous_orders
C4_Witness ==
    /\ pc = "sleep"
    /\ outcome = "ok"
    /\ oks = 1
    /\ warned
    /\ current_orders = {OrderB}
    /\ new_orders = {OrderB}

\* C5: when main enters the loop, previous_orders is the set of the orders
\* get_latest_orders returns.
C5_BaselineIsLatestStored ==
    (pc = "fetch" /\ iter = 0) =>
        previous_orders = Range(get_latest_orders(db, TRUE).orders)

\* C6: a failed insert stops nothing: insert_order is called for every new
\* order, previous_orders is replaced, the loop goes on to the sleep and
\* the next fetch; and an order of previous_orders that has no row (its
\* insert failed) has no insert attempted while it is still fetched.
C6_InsertFailureNotFatal ==
    [][ /\ OkStep => /\ attempted' = new_orders'
                     /\ failed' \subseteq previous_orders'
                     /\ previous_orders' = current_orders'
        /\ (pc = "sleep" /\ failed # {}) => pc' \in {"sleep", "fetch", "init"}
        /\ (OkStep /\ oks >= 1) =>
              \A o \in previous_orders \cap current_orders' :
                 ~Stored(o, db) => o \notin attempted'
      ]_vars

\* C7: if init or the fetch of the first previous_orders fails, main has
\* exited, and has run no iteration and called no insert; main is in the
\* loop only after both succeeded.
C7_StartupFailureIsFatal ==
    /\ startup \in {"init_failed", "fetch_failed"} =>
          (pc = "exited" /\ iter = 0 /\ outcome = "none" /\ attempted = {})
    /\ pc \in {"fetch", "sleep"} => (startup = "fetch_ok" /\ db.exists)
    /\ pc = "boot" => (startup = "init_ok" /\ db.exists)

C7_Witness ==
    /\ pc = "exited"
    /\ startup = "fetch_failed"
    /\ db.rows # <<>>

\* C8: in the first iteration of a run, if the fetched set is the set
\* previous_orders was started with and each of its orders (at most 10)
\* has a row, nothing is new and no row is inserted.
C8_NothingNewAfterRestart ==
    [][ ( /\ OkStep
          /\ iter = 0
          /\ current_orders' = previous_orders
          /\ Cardinality(previous_orders) <= Limit
          /\ \A o \in previous_orders : Stored(o, db) )
        => (new_orders' = {} /\ db' = db) ]_vars

\* the row with i - 1 rows newer than it
NewestRow(i) ==
    CHOOSE r \in Range(db.rows) :
        Cardinality({ q \in Range(db.rows) : q.created_at > r.created_at }) = i - 1

\* C9: get_latest_orders returns min(10, rows) orders, those of the rows
\* with the latest created_at, the newest first; rows inserted one after
\* the other come back in the reverse order of their insertion.
C9_LatestOrdersNewestFirst ==
    (latest.called /\ latest.ok) =>
        LET n == Len(db.rows)
            m == IF n < Limit THEN n ELSE Limit
        IN  /\ Len(latest.orders) = m
            /\ \A i \in 1..m :
                 /\ latest.orders[i] = RowToOrder(NewestRow(i))
                 /\ latest.orders[i] = RowToOrder(db.rows[n + 1 - i])

\* more rows than the limit, and the two newest differ
C9_Witness ==
    /\ latest.called
    /\ latest.ok
    /\ Len(db.rows) > Limit
    /\ latest.orders[1] # latest.orders[2]
    /\ latest.orders[1] = RowToOrder(db.rows[Len(db.rows)])

\* amounts that denote no number, types outside the enumeration
Numerals == {"0.3", "0.30000000000000004", "0.3000000000000005"}
NonNumeric(str) == str \notin Numerals \cup {"NaN"}
BadItem(raw) ==
    \/ NonNumeric(raw.cryptoAmount)
    \/ NonNumeric(raw.fiatAmount)
    \/ NonNumeric(raw.fiatPrice)
    \/ raw.type \notin {"buy", "sell"}

\* C10: if an element of the latestOrders array of a response has a
\* non-numeric amount or an unknown type, the fetch of the iteration is
\* an Err: nothing is new, no insert is called, and the table and
\* previous_orders stay as they were.
C10_BadRecordFailsWholeFetch ==
    [][ ( /\ pc = "fetch"
          /\ pc' = "sleep"
          /\ \E raw \in response'.items : BadItem(raw) )
        => /\ outcome' = "err"
           /\ current_orders' = {}
           /\ new_orders' = {}
           /\ attempted' = {}
           /\ db' = db
           /\ previous_orders' = previous_orders ]_vars

\* a response with a bad element beside a good one, with a baseline
C10_Witness ==
    /\ pc = "sleep"
    /\ outcome = "err"
    /\ previous_orders # {}
    /\ \E bad, good \in response.items : BadItem(bad) /\ ~BadItem(good)

\* strings that denote a non-finite value; orders and rows holding one
NonFiniteText(str) == str \in {"NaN", "inf"}
NonFiniteItem(raw) ==
    \/ NonFiniteText(raw.cryptoAmount)
    \/ NonFiniteText(raw.fiatAmount)
    \/ NonFiniteText(raw.fiatPrice)
NonFiniteOrder(o) ==
    \/ o.crypto_amount.cls # "finite"
    \/ o.fiat_amount.cls # "finite"
    \/ o.fiat_price.cls # "finite"

\* C11: a response with an element whose amount denotes a non-finite
\* value makes the fetch an Err (the one before the loop as those of the
\* iterations), and no order with a non-finite amount is ever in
\* current_orders, in previous_orders or in a row of the table.
C11_NonFiniteFailsFetch ==
    [][ /\ ( /\ pc = "fetch"
             /\ pc' = "sleep"
             /\ \E raw \in response'.items : NonFiniteItem(raw) )
           => outcome' = "err"
        /\ \A o \in current_orders' \cup previous_orders' : ~NonFiniteOrder(o)
        /\ \A i \in 1..Len(db'.rows) : ~NonFiniteOrder(db'.rows[i])
      ]_vars

\* the body of the response has the success shape
SuccessShape(resp) ==
    /\ "latestOrders" \in resp.fields
    /\ \A raw \in resp.items : OrderDecodes(raw)

\* C12: of a response that came, a body of the success shape makes the
\* fetch Ok with the orders of its array; otherwise a body with a message
\* makes it an Err whose text is that message; a body of neither shape
\* makes it an Err that carries the response text.
C12_EnvelopeDecoding ==
    (pc = "sleep" /\ response.sent) =>
        IF SuccessShape(response)
        THEN /\ outcome = "ok"
             /\ \A o \in current_orders :
                   \E raw \in response.items : OrderHash(o) = OrderHash(DeserializeOrder(raw))
             /\ \A raw \in response.items :
                   \E o \in current_orders : OrderHash(o) = OrderHash(DeserializeOrder(raw))
                                             \/ OrderEq(o, DeserializeOrder(raw))
        ELSE IF "message" \in response.fields
        THEN /\ outcome = "err"
             /\ error.kind = "message"
             /\ error.message = response.message
        ELSE /\ outcome = "err"
             /\ error.kind = "deserialize"
             /\ error.text = response

\* the orders main holds
Ingested == current_orders \cup previous_orders \cup new_orders

\* two amounts differ by at most machine epsilon
WithinEpsilon(x, y) == x.k - y.k <= EPSILON /\ y.k - x.k <= EPSILON

\* C13: two orders are equal (PartialEq) iff their type, blockchain and
\* symbols are the same and each of their three amounts differs by at
\* most f64::EPSILON; and every order main holds is equal to itself.
C13_EqualityWithinEpsilon ==
    /\ \A a, b \in Ingested :
          OrderEq(a, b) <=>
             /\ a.ty = b.ty
             /\ a.blockchain = b.blockchain
             /\ a.crypto_symbol = b.crypto_symbol
             /\ a.fiat_symbol = b.fiat_symbol
             /\ WithinEpsilon(a.crypto_amount, b.crypto_amount)
             /\ WithinEpsilon(a.fiat_amount, b.fiat_amount)
             /\ WithinEpsilon(a.fiat_price, b.fiat_price)
    /\ \A a \in Ingested : OrderEq(a, a)

\* C14: init on a file whose table exists returns Ok when the file opens
\* and leaves the table and every row as they were; a failed init changes
\* nothing; and init after init returns and leaves what one init does.
C14_InitIdempotent ==
    [][ (pc = "init" /\ pc' # "init") =>
          /\ startup' = "init_ok" => (db'.exists /\ db'.rows = db.rows)
          /\ startup' = "init_failed" => db' = db
          /\ db.exists => init(db, TRUE) = [ok |-> TRUE, db |-> db]
          /\ init(init(db, TRUE).db, TRUE) = init(db, TRUE)
      ]_vars

\* init has succeeded on a table that held rows of an earlier run
C14_Witness ==
    /\ pc = "boot"
    /\ startup = "init_ok"
    /\ db.exists
    /\ db.rows # <<>>

\* C15: a GET is sent only when none is in flight and main is at the top
\* of the loop; while the inserts of an iteration run no GET is sent; and
\* when the GET of the next iteration is sent, insert_order has returned
\* for every new order of the iteration before and previous_orders is its
\* fetched set.
C15_CyclesSerialized ==
    [][ /\ pc' = "fetching" => pc = "fetch"
        /\ pc = "fetching" => pc' \in {"insert", "sleep"}
        /\ pc = "insert" => pc' \in {"insert", "sleep"}
        /\ (pc' = "fetching" /\ outcome = "ok") =>
              /\ attempted = new_orders
              /\ previous_orders = current_orders
        /\ (pc' = "fetching" /\ outcome = "err") => attempted = {}
      ]_vars

\* the GET of an iteration is in flight after an iteration that had two
\* new orders, one of whose inserts failed
C15_Witness ==
    /\ pc = "fetching"
    /\ outcome = "ok"
    /\ Cardinality(new_orders) = 2
    /\ attempted = new_orders
    /\ failed # {}
    /\ db.rows # <<>>

\* C16: in a run that nothing shuts down, main does not leave the loop
\* once it is in it, whatever fetch and insert_order return: every sleep
\* is followed by the next fetch, and every fetch by the next sleep.
C16_LoopNeverEnds ==
    /\ [][ (pc \in {"fetch", "sleep"}) => (pc' \in {"fetch", "sleep"}) ]_vars
    /\ (pc = "sleep") ~> (pc = "fetch")
    /\ (pc = "fetch") ~> (pc = "sleep")

\* main sleeps after an iteration all of whose inserts failed, the
\* iterations before it having failed at the fetch
C16_Witness ==
    /\ pc = "sleep"
    /\ iter = 2
    /\ oks = 1
    /\ outcome = "ok"
    /\ failed # {}
    /\ failed = attempted

\* the table has a row whose order is equal (PartialEq) to o
Present(o, d) == \E i \in 1..Len(d.rows) : OrderEq(RowToOrder(d.rows[i]), o)

\* C17: after an iteration none of whose inserts failed, every order of
\* previous_orders has a row, given that those of previous_orders had one
\* before it; and after the first iteration of a run they have one
\* whatever the table held (at most 10 rows) when the run began.
C17_BaselineIsStored ==
    [][ (OkStep /\ failed' = {} /\ Len(db.rows) <= Limit) =>
          ( (iter = 0 \/ \A o \in previous_orders : Present(o, db))
            => \A o \in previous_orders' : Present(o, db') ) ]_vars

\* C18 as claimed: the warning is logged only in an iteration that found
\* a new order.
C18_WarnedOnlyIfNew ==
    (pc = "sleep" /\ outcome = "ok" /\ warned) => new_orders # {}

\* C18 amended: the warning is logged only in an iteration all of whose
\* fetched orders are new; an iteration that finds nothing new logs none
\* when it fetched an order, and logs it when it fetched none.
C18_WarnedOnlyIfAllNew ==
    (pc = "sleep" /\ outcome = "ok") =>
        /\ warned => new_orders = current_orders
        /\ (new_orders = {} /\ current_orders # {}) => ~warned
        /\ current_orders = {} => warned

\* the warning after a response whose latestOrders array is empty, in an
\* iteration later than the first
C18_Witness ==
    /\ pc = "sleep"
    /\ outcome = "ok"
    /\ oks = 2
    /\ response.items = {}
    /\ current_orders = {}
    /\ new_orders = {}
    /\ warned

\* C19: an order of previous_orders that the fetch of an iteration
\* returns again has no insert attempted in it, whatever number of failed
\* fetches lies between the two; and in one iteration insert_order is
\* called once at most for an order, however often the response lists it.
C19_AtMostOneAppend ==
    [][ OkStep =>
          /\ \A o \in previous_orders \cap current_orders' : o \notin attempted'
          /\ \A a, b \in attempted' : OrderHash(a) = OrderHash(b) => a = b
          /\ Len(db'.rows) - Len(db.rows)
                <= Cardinality({ DeserializeOrder(raw) : raw \in response'.items })
      ]_vars

\* what get_latest_orders returns first after insert_order(o, ..) on d
ReadBack(o, d) == get_latest_orders(insert_order(o, d, TRUE).db, TRUE)

\* C20: for every order main holds, insert_order and then
\* get_latest_orders give back, as the newest, an order equal to it, with
\* the same type, strings and amounts; the type is stored as the string
\* of its Display, which FromStr turns into the same type.
C20_StoreRoundTrip ==
    db.exists =>
        \A o \in Ingested :
            /\ OrderTypeFromStr(OrderTypeToString(o.ty)) = [ok |-> TRUE, v |-> o.ty]
            /\ ReadBack(o, db).ok
            /\ OrderEq(ReadBack(o, db).orders[1], o)
            /\ OrderHash(ReadBack(o, db).orders[1]) = OrderHash(o)
====
